---- MODULE Spec2Model ----
(***************************************************************************)
(* Partition-and-reconstruct geometry of segmentation3d                    *)
(* (dataloader/image_tools.py): the partition planner, the resampler's     *)
(* size rule, the sum/count accumulation of tile scores and the            *)
(* connected-component filters, the output grids of crop_image, resample   *)
(* and resample_spacing, and the checkpoint schedule of core/seg_train.py. *)
(*                                                                         *)
(* Physical lengths (mm) are integers counted in tenths of a millimetre,   *)
(* so that 51.2 mm is 512 and a spacing of 1 mm is 10.  Python 3 division  *)
(* is assumed ("/" is true division, "//" floor division), as the source   *)
(* itself uses "//" where it wants an integer quotient.  Origins and       *)
(* centres are counted in twentieths of a millimetre, so that a centre     *)
(* minus half a physical extent is an integer.                             *)
(***************************************************************************)
EXTENDS Integers, Sequences, FiniteSets, TLC

VARIABLES
    pc,                \* position of the run: "init", "planned", "error", ...
    image_size,        \* image.GetSize(), voxels per axis
    image_spacing,     \* image.GetSpacing(), tenths of mm per voxel
    partition_size,    \* cfg.general.partition_size, tenths of mm
    partition_stride,  \* cfg.general.partition_stride, tenths of mm
    max_stride,        \* net.max_stride()
    box_size,          \* planner: voxel tile size per axis
    stride_size,       \* planner: voxel stride per axis
    num_partitions,    \* planner: tiles per axis
    start_voxels,      \* planner: returned list of window starts
    end_voxels,        \* planner: returned list of window ends
    resampled_spacing, \* resample_spacing: requested output spacing
    out_size,          \* resample_spacing: output size per axis
    mean_probs,        \* accumulator: per class, the image of summed scores
    overlap_count,     \* accumulator: the image of overlap counts
    completion_order,  \* accumulator: the window indices in the order their tiles were added
    tile_of,           \* accumulator: per window, <<tile>> once its tile was added, None before
    mean_scores,       \* finalize: per voxel and class, the score <<numerator, denominator>>
    label_volume,      \* finalize: per voxel, the arg-max class
    mask,              \* component filters: the input multi-label volume
    labels,            \* component filters: the list of labels to filter
    threshold,         \* remove_small_connected_component: the size threshold
    filtered,          \* component filters: the returned volume
    threshold2,        \* remove_small_connected_component: the threshold of a second call
    refiltered,        \* component filters: the volume returned by a second call
    image_origin,      \* image.GetOrigin(), twentieths of mm
    image_direction,   \* image.GetDirection(), the 9 direction cosines
    interp_method,     \* the interp_method argument of crop_image, resample, resample_spacing
    reference,         \* resample: the grid of the reference image
    cropping,          \* crop_image: cropping_center, cropping_size, cropping_spacing
    outimage,          \* crop_image, resample, resample_spacing: the outcome of the call
    train_cfg,         \* train: len(dataset), cfg.train.*, cfg.general.resume_epoch, the stored checkpoint
    batch_idx,         \* train: batch_idx
    epoch_idx,         \* train: epoch_idx
    last_save_epoch,   \* train: last_save_epoch
    loop_i,            \* train: the loop variable i
    save_calls,        \* train: the epoch_idx of each call of save_checkpoint, in order
    checkpoints        \* save_checkpoint: the states written with torch.save

planVars == <<image_size, image_spacing, partition_size, partition_stride, max_stride,
              box_size, stride_size, num_partitions, start_voxels, end_voxels>>
resVars == <<resampled_spacing, out_size>>
accVars == <<mean_probs, overlap_count, tile_of, completion_order, mean_scores, label_volume>>
ccVars == <<mask, labels, threshold, filtered, threshold2, refiltered>>
geomVars == <<image_origin, image_direction, interp_method, reference, cropping, outimage>>
trainVars == <<train_cfg, batch_idx, epoch_idx, last_save_epoch, loop_i, save_calls, checkpoints>>
vars == <<pc, planVars, resVars, accVars, ccVars, geomVars, trainVars>>

Axes == 1..3

None == <<>>

(***************************************************************************)
(* Bounds of the enumerated inputs.                                        *)
(***************************************************************************)
MaxSize == 3        \* image sizes 1..MaxSize voxels per axis
MaxSpacing == 3     \* spacings 1..MaxSpacing tenths of mm
MaxPhys == 4        \* partition size and stride 1..MaxPhys tenths of mm
MaxStride == 2      \* max_stride 1..MaxStride
MaxAccSize == 3     \* accumulation: image sizes 1..MaxAccSize voxels per axis
MaxAccPhys == 2     \* accumulation: partition size and stride 1..MaxAccPhys tenths of mm
MaxAccSpacing == 2  \* accumulation: spacings 1..MaxAccSpacing tenths of mm
MaxTiles == 2       \* accumulation: plans of at most MaxTiles windows
MaxScore == 1       \* accumulation: the score of a tile's predicted class
NumClasses == 2     \* accumulation: classes 0..NumClasses-1
MaxCCSize == 4      \* component filters: volume sizes 1..MaxCCSize voxels per axis
MaxCCVoxels == 4    \* component filters: volumes of at most MaxCCVoxels voxels
MaxLabel == 2       \* component filters: labels 0..MaxLabel
MaxThreshold == 2   \* component filters: thresholds 0..MaxThreshold
MaxGeomSize == 2    \* output grids: image and reference sizes 1..MaxGeomSize voxels per axis
MaxGeomSpacing == 2 \* output grids: spacings 1..MaxGeomSpacing tenths of mm
MaxOrigin == 1      \* output grids: origins and centres 0..MaxOrigin twentieths of mm
MaxCropSize == 1    \* crop_image: requested sizes -1..MaxCropSize voxels, in steps of a half
MaxSamples == 2     \* train: len(dataset) 1..MaxSamples
MaxBatch == 2       \* train: cfg.train.batchsize 1..MaxBatch
MaxSaveEpochs == 2  \* train: cfg.train.save_epochs 1..MaxSaveEpochs
MaxEpochs == 3      \* train: cfg.train.epochs 1..MaxEpochs

(***************************************************************************)
(* Arithmetic helpers.                                                     *)
(***************************************************************************)
\* the voxels (x, y, z) of an image of the given size
Grid(size) == (0..(size[1] - 1)) \X (0..(size[2] - 1)) \X (0..(size[3] - 1))

\* voxel v lies in the window [s, e)
InWindow(v, s, e) == \A i \in Axes : s[i] <= v[i] /\ v[i] < e[i]

\* int(num / den + 0.5) for num >= 0, den > 0: round half up
RoundHalfUp(num, den) == (2 * num + den) \div (2 * den)

\* int(np.ceil(a / b + 1)) for b > 0
CeilPlusOne(a, b) == (0 - ((0 - a) \div b)) + 1

\* faulty variant: the next multiple is taken even when n is already a multiple
PartitionRound_Always(n, m) == m * ((n \div m) + 1)

\* the rounding of the planner's tile size to a multiple of max_stride
PartitionRound(n, m) == IF n % m # 0 THEN m * ((n \div m) + 1) ELSE n

\* the rounding of the resampler's output size to a multiple of max_stride
ResampleRound(n, m) == IF n % m # 0 THEN m * ((n \div m) + 1) ELSE n

(***************************************************************************)
(* image_partition_by_fixed_size                                           *)
(***************************************************************************)
\* faulty variant: the tile size is left as rounded, not raised to a multiple of max_stride
BoxSize_NoRound(psize, spacing, m) ==
    [i \in Axes |-> RoundHalfUp(psize[i], spacing[i])]

BoxSize(psize, spacing, m) ==
    [i \in Axes |-> PartitionRound(RoundHalfUp(psize[i], spacing[i]), m)]

StrideSize(pstride, spacing) ==
    [i \in Axes |-> RoundHalfUp(pstride[i], spacing[i])]

\* faulty variant: the quotient is floored, so a last partial step gets no tile
NumPartitions_Floor(size, box, stride) ==
    [i \in Axes |-> ((size[i] - box[i]) \div stride[i]) + 1]

NumPartitions(size, box, stride) ==
    [i \in Axes |-> CeilPlusOne(size[i] - box[i], stride[i])]

\* the number of iterations of the three nested loops
NumWindows(num) ==
    IF \E i \in Axes : num[i] <= 0 THEN 0 ELSE num[1] * num[2] * num[3]

\* the tile index (idx, idy, idz) of the k-th appended window, k = 1..NumWindows
TileIndex(k, num) ==
    <<(k - 1) \div (num[2] * num[3]), ((k - 1) \div num[3]) % num[2], (k - 1) % num[3]>>

\* faulty variant: the start is not shifted inward when the end is clamped
StartVoxel_NoShift(t, size, box, stride) ==
    [i \in Axes |-> t[i] * stride[i]]

\* the clamped start of the window with tile index t
StartVoxel(t, size, box, stride) ==
    [i \in Axes |-> IF t[i] * stride[i] + box[i] > size[i]
                    THEN size[i] - box[i]
                    ELSE t[i] * stride[i]]

\* faulty variant: the end is not clamped to the image size
EndVoxel_NoClamp(t, size, box, stride) ==
    [i \in Axes |-> t[i] * stride[i] + box[i]]

\* the clamped end of the window with tile index t
EndVoxel(t, size, box, stride) ==
    [i \in Axes |-> IF t[i] * stride[i] + box[i] > size[i]
                    THEN size[i]
                    ELSE t[i] * stride[i] + box[i]]

image_partition_by_fixed_size ==
    /\ pc = "init"
    /\ LET box == BoxSize(partition_size, image_spacing, max_stride)
           stride == StrideSize(partition_stride, image_spacing)
       IN  /\ box_size' = box
           /\ stride_size' = stride
           /\ IF \E i \in Axes : stride[i] = 0
              THEN \* ZeroDivisionError in the computation of num_partitions
                   /\ pc' = "error"
                   /\ UNCHANGED <<num_partitions, start_voxels, end_voxels>>
              ELSE LET num == NumPartitions(image_size, box, stride)
                   IN  /\ pc' = "planned"
                       /\ num_partitions' = num
                       /\ start_voxels' =
                            [k \in 1..NumWindows(num) |->
                                StartVoxel(TileIndex(k, num), image_size, box, stride)]
                       /\ end_voxels' =
                            [k \in 1..NumWindows(num) |->
                                EndVoxel(TileIndex(k, num), image_size, box, stride)]
    /\ UNCHANGED <<image_size, image_spacing, partition_size, partition_stride, max_stride>>
    /\ UNCHANGED <<resVars, accVars, ccVars, geomVars, trainVars>>

(***************************************************************************)
(* resample_spacing: the output size                                       *)
(***************************************************************************)
OutSize(size, spacing, outsp, m) ==
    [i \in Axes |-> ResampleRound(RoundHalfUp(size[i] * spacing[i], outsp[i]), m)]

\* the direction cosines of an axis-aligned image
Identity == <<1, 0, 0, 0, 1, 0, 0, 0, 1>>

\* faulty variant: the mode is compared without regard to case
InterpOf_AnyCase(method) ==
    IF method \in {"LINEAR", "Linear"} THEN "sitkLinear"
    ELSE IF method = "NN" THEN "sitkNearestNeighbor"
    ELSE "ValueError"

\* the if/elif/else on interp_method: the interpolator, or
\* ValueError('Unsupported interpolation type.')
InterpOf(method) ==
    IF method = "LINEAR" THEN "sitkLinear"
    ELSE IF method = "NN" THEN "sitkNearestNeighbor"
    ELSE "ValueError"

\* the outcome of a call that raised
Raised(op, error) ==
    [op |-> op, ok |-> FALSE, error |-> error,
     size |-> None, origin |-> None, spacing |-> None, direction |-> None]

\* faulty variant: origin and direction are not passed on, the output gets
\* the default frame
Resample_DefaultFrame(op, size, origin, spacing, direction) ==
    IF \E i \in Axes : size[i] < 0
    THEN Raised(op, "OverflowError")
    ELSE [op |-> op, ok |-> TRUE, error |-> "",
          size |-> size, origin |-> <<0, 0, 0>>, spacing |-> spacing, direction |-> Identity]

\* sitk.Resample(image, size, transform, interpolator, origin, spacing,
\* direction): the output grid is the one described by the arguments.  The
\* size is a vector of unsigned integers: a negative entry is rejected when
\* the arguments are converted, an entry 0 gives a grid without voxels.
Resample(op, size, origin, spacing, direction) ==
    IF \E i \in Axes : size[i] < 0
    THEN Raised(op, "OverflowError")
    ELSE [op |-> op, ok |-> TRUE, error |-> "",
          size |-> size, origin |-> origin, spacing |-> spacing, direction |-> direction]

resample_spacing ==
    /\ out_size = None
    /\ outimage = None
    /\ \E s \in 1..MaxSpacing :
          LET size == OutSize(image_size, image_spacing, [i \in Axes |-> s], max_stride)
          IN  /\ resampled_spacing' = [i \in Axes |-> s]
              /\ IF InterpOf(interp_method) = "ValueError"
                 THEN /\ outimage' = Raised("resample_spacing", "ValueError")
                      /\ UNCHANGED out_size
                 ELSE /\ out_size' = size
                      /\ outimage' = Resample("resample_spacing", size, image_origin,
                                              [i \in Axes |-> s], image_direction)
    /\ UNCHANGED <<pc, planVars, accVars, ccVars, trainVars>>
    /\ UNCHANGED <<image_origin, image_direction, interp_method, reference, cropping>>

\* resample(image, reference, interp_method): sitk.Resample(image,
\* reference, ...) gives the output the grid of the reference image
resample ==
    /\ outimage = None
    /\ reference # None
    /\ outimage' =
          IF InterpOf(interp_method) = "ValueError"
          THEN Raised("resample", "ValueError")
          ELSE [op |-> "resample", ok |-> TRUE, error |-> "",
                size |-> reference.size, origin |-> reference.origin,
                spacing |-> reference.spacing, direction |-> reference.direction]
    /\ UNCHANGED <<pc, planVars, resVars, accVars, ccVars, trainVars>>
    /\ UNCHANGED <<image_origin, image_direction, interp_method, reference, cropping>>

\* int(x) of a number given in halves: truncation towards zero
IntOfHalves(h) == IF h >= 0 THEN h \div 2 ELSE -((-h) \div 2)

\* cropping_size = [int(cropping_size[idx]) for idx in range(3)]
CroppingSize(halves) == [i \in Axes |-> IntOfHalves(halves[i])]

\* cropping_start_point_world: the centre minus half the physical size
CroppingOrigin(center, size, spacing) ==
    [i \in Axes |-> center[i] - size[i] * spacing[i]]

crop_image ==
    /\ outimage = None
    /\ cropping # None
    /\ LET size == CroppingSize(cropping.size)
           origin == CroppingOrigin(cropping.center, size, cropping.spacing)
       IN  outimage' =
              IF InterpOf(interp_method) = "ValueError"
              THEN Raised("crop_image", "ValueError")
              ELSE Resample("crop_image", size, origin, cropping.spacing, image_direction)
    /\ UNCHANGED <<pc, planVars, resVars, accVars, ccVars, trainVars>>
    /\ UNCHANGED <<image_origin, image_direction, interp_method, reference, cropping>>

(***************************************************************************)
(* The planner and the resampler applied to the same image.                *)
(***************************************************************************)
\* the shipped inference configuration on a 100^3 image of 1 mm spacing
ScenarioInput ==
    [size |-> <<100, 100, 100>>, spacing |-> <<10, 10, 10>>,
     psize |-> <<512, 512, 512>>, pstride |-> <<512, 512, 512>>, m |-> 16]

PlanInputs ==
    [size : [Axes -> 1..MaxSize],
     spacing : {<<a, a, b>> : a, b \in 1..MaxSpacing},   \* in-plane and slice spacing
     psize : {[i \in Axes |-> p] : p \in 1..MaxPhys},
     pstride : {[i \in Axes |-> p] : p \in 1..MaxPhys},
     m : 1..MaxStride]
      \cup {ScenarioInput}

InitPlanOf(in) ==
    /\ pc = "init"
    /\ image_size = in.size
    /\ image_spacing = in.spacing
    /\ partition_size = in.psize
    /\ partition_stride = in.pstride
    /\ max_stride = in.m
    /\ box_size = None
    /\ stride_size = None
    /\ num_partitions = None
    /\ start_voxels = None
    /\ end_voxels = None
    /\ resampled_spacing = None
    /\ out_size = None
    /\ mean_probs = None
    /\ overlap_count = None
    /\ tile_of = None
    /\ completion_order = None
    /\ mean_scores = None
    /\ label_volume = None
    /\ mask = None
    /\ labels = None
    /\ threshold = None
    /\ filtered = None
    /\ threshold2 = None
    /\ refiltered = None
    /\ image_origin = <<0, 0, 0>>
    /\ image_direction = Identity
    /\ interp_method = "LINEAR"
    /\ reference = None
    /\ cropping = None
    /\ outimage = None
    /\ train_cfg = None
    /\ batch_idx = None
    /\ epoch_idx = None
    /\ last_save_epoch = None
    /\ loop_i = None
    /\ save_calls = None
    /\ checkpoints = None

Init == \E in \in PlanInputs : InitPlanOf(in)

Next ==
    \/ image_partition_by_fixed_size
    \/ resample_spacing

Spec == Init /\ [][Next]_vars

(***************************************************************************)
(* Properties of the partition planner.                                    *)
(***************************************************************************)
Planned == pc = "planned"

Windows == 1..Len(start_voxels)

Covered(v) == \E k \in Windows : InWindow(v, start_voxels[k], end_voxels[k])

BoxFits == \A i \in Axes : box_size[i] <= image_size[i]

\* some window was shifted inward at the image boundary
SomeClamped ==
    \E k \in Windows : \E i \in Axes :
        start_voxels[k][i] # TileIndex(k, num_partitions)[i] * stride_size[i]

\* C1 as stated: when the tile fits the image, whatever the positive voxel
\* stride, every voxel of the image lies in at least one returned window.
C1_CoverageAnyStride ==
    (Planned /\ BoxFits) => \A v \in Grid(image_size) : Covered(v)

\* C1 (amended): when the tile fits the image and the voxel stride is
\* positive and at most the voxel tile size on every axis, every voxel of
\* the image lies in at least one returned window.
C1_Coverage ==
    (Planned /\ BoxFits /\ \A i \in Axes : stride_size[i] <= box_size[i])
        => \A v \in Grid(image_size) : Covered(v)

C1_Witness ==
    /\ Planned /\ BoxFits
    /\ \A i \in Axes : stride_size[i] <= box_size[i]
    /\ Len(start_voxels) >= 4
    /\ SomeClamped
    /\ \E i \in Axes : stride_size[i] < box_size[i]

\* C2: every returned window, clamped or not, has extent box_size on every
\* axis, and box_size is an exact multiple of max_stride.
C2_Extent ==
    Planned =>
        \A k \in Windows : \A i \in Axes :
            /\ end_voxels[k][i] - start_voxels[k][i] = box_size[i]
            /\ box_size[i] % max_stride = 0

C2_Witness ==
    /\ Planned
    /\ SomeClamped
    /\ max_stride > 1
    /\ \E i \in Axes : box_size[i] # RoundHalfUp(partition_size[i], image_spacing[i])

\* every window is non-empty and inside the image, and the window with the
\* largest tile index on an axis ends at the image size on that axis
WellFormedWindows ==
    /\ \A k \in Windows : \A i \in Axes :
          /\ 0 <= start_voxels[k][i]
          /\ start_voxels[k][i] < end_voxels[k][i]
          /\ end_voxels[k][i] <= image_size[i]
    /\ \A k \in Windows : \A i \in Axes :
          TileIndex(k, num_partitions)[i] = num_partitions[i] - 1
              => end_voxels[k][i] = image_size[i]

\* C3 as stated: whenever the voxel tile size is at most the image size on
\* every axis, the windows are well formed (0 <= start < end <= size, and
\* the last window on each axis ends at the image size).
C3_ClampAnyBox == (Planned /\ BoxFits) => WellFormedWindows

\* C3 (amended): whenever the voxel tile size is at least 1 and at most the
\* image size on every axis, the windows are well formed (0 <= start < end
\* <= size, and the last window on each axis ends at the image size).
C3_Clamp ==
    (Planned /\ BoxFits /\ \A i \in Axes : box_size[i] >= 1) => WellFormedWindows

C3_Witness ==
    /\ Planned /\ BoxFits
    /\ \A i \in Axes : box_size[i] >= 1
    /\ SomeClamped
    /\ \E i \in Axes : num_partitions[i] >= 2

\* ceil((g - b) / s + 1) with a minimum of 1, for s > 0
ClaimedTiles(g, b, s) ==
    IF g - b <= 0 THEN 1
    ELSE CHOOSE n \in 1..(g + 1) : n * s >= g - b + s /\ (n - 1) * s < g - b + s

\* C4: the planner makes ceil((size - box) / stride + 1) tiles on every
\* axis, and at least 1, so that the returned window list is never empty.
C4_TileCount ==
    Planned =>
        /\ \A i \in Axes :
              num_partitions[i] = ClaimedTiles(image_size[i], box_size[i], stride_size[i])
        /\ Len(start_voxels) >= 1

\* C5 as stated: in the shipped scenario the voxel tile size is 64, the
\* voxel stride is 64 and the planner returns the single window [36,100)^3.
C5_ScenarioOneTile ==
    (Planned /\ image_size = ScenarioInput.size /\ max_stride = ScenarioInput.m) =>
        /\ box_size = <<64, 64, 64>>
        /\ stride_size = <<64, 64, 64>>
        /\ num_partitions = <<1, 1, 1>>
        /\ start_voxels = << <<36, 36, 36>> >>
        /\ end_voxels = << <<100, 100, 100>> >>

\* C5 (amended): in the shipped scenario the voxel tile size is 64, the
\* voxel stride is 51, and the planner returns 2 tiles per axis, 8 windows
\* in all, whose range on each axis is [0,64) or [36,100), every
\* combination of the two occurring once.
C5_Scenario ==
    (Planned /\ image_size = ScenarioInput.size /\ max_stride = ScenarioInput.m) =>
        /\ box_size = <<64, 64, 64>>
        /\ stride_size = <<51, 51, 51>>
        /\ num_partitions = <<2, 2, 2>>
        /\ Len(start_voxels) = 8 /\ Len(end_voxels) = 8
        /\ \A k \in Windows : \A i \in Axes :
              \/ start_voxels[k][i] = 0 /\ end_voxels[k][i] = 64
              \/ start_voxels[k][i] = 36 /\ end_voxels[k][i] = 100
        /\ \A k, l \in Windows : start_voxels[k] = start_voxels[l] => k = l

C5_Witness ==
    /\ Planned
    /\ image_size = ScenarioInput.size
    /\ partition_size = ScenarioInput.psize
    /\ Len(start_voxels) = 8

\* r is the smallest multiple of m that is >= n
SmallestMultiple(r, n, m) == r % m = 0 /\ r >= n /\ r - n < m

RawBox(i) == RoundHalfUp(partition_size[i], image_spacing[i])

RawOut(i) == RoundHalfUp(image_size[i] * image_spacing[i], resampled_spacing[i])

\* C6: the planner's tile size and the resampler's output size are both
\* the smallest multiple of max_stride that is >= the rounded voxel count,
\* and they agree whenever the rounded voxel counts agree.
C6_Rounding ==
    /\ box_size # None => \A i \in Axes : SmallestMultiple(box_size[i], RawBox(i), max_stride)
    /\ out_size # None => \A i \in Axes : SmallestMultiple(out_size[i], RawOut(i), max_stride)
    /\ (box_size # None /\ out_size # None) =>
          \A i, j \in Axes : RawBox(i) = RawOut(j) => box_size[i] = out_size[j]

C6_Witness ==
    /\ box_size # None /\ out_size # None
    /\ max_stride > 1
    /\ \E i, j \in Axes : RawBox(i) = RawOut(j) /\ box_size[i] > RawBox(i)
    /\ \E i \in Axes : RawBox(i) > 0 /\ box_size[i] = RawBox(i)
    /\ \E i \in Axes : RawOut(i) > 0 /\ out_size[i] = RawOut(i)

(***************************************************************************)
(* add_image_value and the accumulation of tile scores                     *)
(***************************************************************************)
Classes == 0..(NumClasses - 1)

\* a predicted tile, named by the class it is predicted as: that class
\* scores MaxScore, the others 0, plus a ramp over the position in the tile
Tiles == Classes

\* the score array of class c of a predicted tile of the given voxel size
TileArray(tile, c, box) ==
    [o \in Grid(box) |->
        (IF c = tile THEN MaxScore ELSE 0) + o[1] + 2 * o[2] + 3 * o[3]]

\* a scalar value, broadcast by numpy over the sliced region
Scalar(x, start_voxel, end_voxel) ==
    [o \in Grid([i \in Axes |-> end_voxel[i] - start_voxel[i]]) |-> x]

Offset(v, start_voxel) == <<v[1] - start_voxel[1], v[2] - start_voxel[2], v[3] - start_voxel[3]>>

\* faulty variant: the region is overwritten (pasted), not added to
add_image_value_paste(image, start_voxel, end_voxel, value) ==
    [v \in DOMAIN image |->
        IF InWindow(v, start_voxel, end_voxel)
        THEN value[Offset(v, start_voxel)]
        ELSE image[v]]

\* faulty variant: the array is sliced [x, y, z] instead of [z, y, x]
add_image_value_axis_order(image, start_voxel, end_voxel, value) ==
    [v \in DOMAIN image |->
        IF InWindow(<<v[3], v[2], v[1]>>, start_voxel, end_voxel)
        THEN image[v] + value[Offset(<<v[3], v[2], v[1]>>, start_voxel)]
        ELSE image[v]]

\* add_image_value for a window inside the image:
\* image_npy[sz:ez, sy:ey, sx:ex] += value
add_image_value(image, start_voxel, end_voxel, value) ==
    [v \in DOMAIN image |->
        IF InWindow(v, start_voxel, end_voxel)
        THEN image[v] + value[Offset(v, start_voxel)]
        ELSE image[v]]

\* begin: zero-initialised sum buffers (one per class) and count buffer
Begin ==
    /\ pc = "planned"
    /\ pc' = "accumulating"
    /\ mean_probs' = [c \in Classes |-> [v \in Grid(image_size) |-> 0]]
    /\ overlap_count' = [v \in Grid(image_size) |-> 0]
    /\ tile_of' = [k \in 1..Len(start_voxels) |-> None]
    /\ completion_order' = <<>>
    /\ UNCHANGED <<planVars, resVars, ccVars, geomVars, trainVars, mean_scores, label_volume>>

\* add: the prediction of one not yet added window, in any completion
\* order, is added to every class's sum buffer and 1 to the count buffer
Add ==
    /\ pc = "accumulating"
    /\ \E k \in 1..Len(start_voxels) : \E tile \in Tiles :
          /\ tile_of[k] = None
          /\ tile_of' = [tile_of EXCEPT ![k] = <<tile>>]
          /\ completion_order' = Append(completion_order, k)
          /\ mean_probs' =
                [c \in Classes |->
                    add_image_value(mean_probs[c], start_voxels[k], end_voxels[k],
                                  TileArray(tile, c, box_size))]
          /\ overlap_count' =
                add_image_value(overlap_count, start_voxels[k], end_voxels[k],
                              Scalar(1, start_voxels[k], end_voxels[k]))
    /\ UNCHANGED <<pc, planVars, resVars, ccVars, geomVars, trainVars, mean_scores, label_volume>>

\* the lowest class whose summed score is the highest
ArgMax(score) ==
    CHOOSE c \in Classes :
        /\ \A d \in Classes : score[d] <= score[c]
        /\ \A d \in Classes : score[d] = score[c] => c <= d

\* finalize: once every window was added, the sum is divided by the count
\* (a voxel of count 0 keeps its zero scores) and the arg-max is taken
Finalize ==
    /\ pc = "accumulating"
    /\ \A k \in 1..Len(start_voxels) : tile_of[k] # None
    /\ pc' = "finalized"
    /\ mean_scores' =
          [v \in Grid(image_size) |->
              [c \in Classes |->
                  <<mean_probs[c][v], IF overlap_count[v] > 0 THEN overlap_count[v] ELSE 1>>]]
    /\ label_volume' =
          [v \in Grid(image_size) |-> ArgMax([c \in Classes |-> mean_probs[c][v]])]
    /\ UNCHANGED <<planVars, resVars, ccVars, geomVars, trainVars, mean_probs, overlap_count, tile_of, completion_order>>

\* images and configurations whose tile fits the image (the planner's
\* documented precondition) and whose plan has at most MaxTiles windows
AccInputs ==
    {in \in [size : [Axes -> 1..MaxAccSize],
             spacing : {<<a, a, b>> : a, b \in 1..MaxAccSpacing},
             psize : {[i \in Axes |-> p] : p \in 1..MaxAccPhys},
             pstride : {[i \in Axes |-> p] : p \in 1..MaxAccPhys},
             m : 1..MaxStride] :
        LET box == BoxSize(in.psize, in.spacing, in.m)
            stride == StrideSize(in.pstride, in.spacing)
        IN  /\ \A i \in Axes : stride[i] >= 1 /\ box[i] >= 1 /\ box[i] <= in.size[i]
            /\ NumWindows(NumPartitions(in.size, box, stride)) <= MaxTiles}

InitAcc == \E in \in AccInputs : InitPlanOf(in)

NextAcc ==
    \/ image_partition_by_fixed_size
    \/ Begin
    \/ Add
    \/ Finalize

SpecAcc == InitAcc /\ [][NextAcc]_vars

(***************************************************************************)
(* Properties of the accumulation.                                         *)
(***************************************************************************)
Accumulating == pc \in {"accumulating", "finalized"}

\* the windows that contain voxel v
WindowsAt(v) == {k \in Windows : InWindow(v, start_voxels[k], end_voxels[k])}

\* the windows already added that contain voxel v
AddedAt(v) == {k \in WindowsAt(v) : tile_of[k] # None}

\* the score of class c that the tile of window k has at voxel v
ScoreAt(k, c, v) == TileArray(tile_of[k][1], c, box_size)[Offset(v, start_voxels[k])]

RECURSIVE SumScores(_, _, _)
SumScores(ks, c, v) ==
    IF ks = {} THEN 0
    ELSE LET k == CHOOSE x \in ks : TRUE
         IN  ScoreAt(k, c, v) + SumScores(ks \ {k}, c, v)

\* C7: after any sequence of adds on zeroed buffers, at every voxel the sum
\* buffer of each class holds the sum of the scores of the added windows
\* that contain the voxel, and the count buffer their number (at least 1
\* when there is one); a voxel outside every added window is still 0.
C7_Accumulation ==
    Accumulating =>
        \A v \in Grid(image_size) :
            /\ \A c \in Classes : mean_probs[c][v] = SumScores(AddedAt(v), c, v)
            /\ overlap_count[v] = Cardinality(AddedAt(v))
            /\ AddedAt(v) # {} => overlap_count[v] >= 1

C7_Witness ==
    /\ pc = "accumulating"
    /\ \E v \in Grid(image_size) :
          /\ overlap_count[v] = 2
          /\ \E k \in AddedAt(v) : Offset(v, start_voxels[k]) # <<0, 0, 0>>
          /\ \E c \in Classes : mean_probs[c][v] >= 2
    /\ \E v \in Grid(image_size) : overlap_count[v] = 1

\* C8: a voxel covered by exactly 2 windows, of scores s1 and s2 for a
\* class, has the finalized score (s1 + s2) / 2 for that class.
C8_OverlapAverage ==
    pc = "finalized" =>
        \A v \in Grid(image_size) :
            Cardinality(WindowsAt(v)) = 2 =>
                \A c \in Classes :
                    mean_scores[v][c][1] * 2
                        = SumScores(WindowsAt(v), c, v) * mean_scores[v][c][2]

C8_Witness ==
    /\ pc = "finalized"
    /\ \E v \in Grid(image_size) :
          /\ Cardinality(WindowsAt(v)) = 2
          /\ \E c \in Classes : \E k, l \in WindowsAt(v) : ScoreAt(k, c, v) # ScoreAt(l, c, v)
          /\ \E c \in Classes : mean_scores[v][c][1] % 2 = 1

\* the sum buffer of class c after the tiles of the windows 1..n that were
\* added are added to a zeroed buffer in the order of their index
RECURSIVE SumInIndexOrder(_, _)
SumInIndexOrder(n, c) ==
    IF n = 0 THEN [v \in Grid(image_size) |-> 0]
    ELSE IF tile_of[n] = None THEN SumInIndexOrder(n - 1, c)
    ELSE add_image_value(SumInIndexOrder(n - 1, c), start_voxels[n], end_voxels[n],
                         TileArray(tile_of[n][1], c, box_size))

\* the count buffer after the same adds in the order of the index
RECURSIVE CountInIndexOrder(_)
CountInIndexOrder(n) ==
    IF n = 0 THEN [v \in Grid(image_size) |-> 0]
    ELSE IF tile_of[n] = None THEN CountInIndexOrder(n - 1)
    ELSE add_image_value(CountInIndexOrder(n - 1), start_voxels[n], end_voxels[n],
                         Scalar(1, start_voxels[n], end_voxels[n]))

\* C19: whatever the order in which the tiles were added one at a time, the
\* sum buffers and the count buffer equal those obtained by adding the same
\* tiles in the order of their window index, overlapping windows included.
C19_OrderIndependent ==
    Accumulating =>
        /\ \A c \in Classes : mean_probs[c] = SumInIndexOrder(Len(start_voxels), c)
        /\ overlap_count = CountInIndexOrder(Len(start_voxels))

C19_Witness ==
    /\ pc = "accumulating"
    /\ completion_order = <<2, 1>>
    /\ \E v \in Grid(image_size) :
          /\ overlap_count[v] = 2
          /\ \E c \in Classes : ScoreAt(1, c, v) # ScoreAt(2, c, v)

(***************************************************************************)
(* pick_largest_connected_component, remove_small_connected_component      *)
(***************************************************************************)
\* full connectivity (SetFullyConnected(True)): the 26 neighbours
Adjacent(u, v) ==
    /\ u # v
    /\ \A i \in Axes : u[i] - v[i] \in {-1, 0, 1}

RECURSIVE Grow(_, _)
\* the voxels of S connected to the set C
Grow(C, S) ==
    LET more == {v \in S \ C : \E u \in C : Adjacent(u, v)}
    IN  IF more = {} THEN C ELSE Grow(C \cup more, S)

\* ConnectedComponentImageFilter: the connected components of the voxel set S
Components(S) == {Grow({u}, S) : u \in S}

\* the position of voxel v in raster order (x fastest), for a volume of the given size
Raster(v, size) == v[1] + size[1] * (v[2] + size[2] * v[3])

\* the object number of a component: components are numbered in raster
\* order of their first voxel
ObjectNumber(C, size) ==
    LET first == CHOOSE u \in C : \A v \in C : Raster(u, size) <= Raster(v, size)
    IN  Raster(first, size)

\* RelabelComponent: component C comes before component D (larger first,
\* equal sizes by object number)
Before(C, D, size) ==
    \/ Cardinality(C) > Cardinality(D)
    \/ Cardinality(C) = Cardinality(D) /\ ObjectNumber(C, size) < ObjectNumber(D, size)

\* (RelabelComponent(cc) == 1): the voxels of the first component
LargestCC(S, size) ==
    IF S = {} THEN {}
    ELSE CHOOSE C \in Components(S) :
            \A D \in Components(S) : D # C => Before(C, D, size)

\* faulty variant: the comparison with the minimum object size is inverted
KeptCC_Inverted(S, minsize) ==
    UNION {C \in Components(S) : Cardinality(C) <= minsize}

\* (RelabelComponent(cc, threshold) > 0): the voxels of the components
\* that are not smaller than the minimum object size
KeptCC(S, minsize) ==
    UNION {C \in Components(S) : Cardinality(C) >= minsize}

\* (mask == label)
mask_binary(m, label) == {v \in DOMAIN m : m[v] = label}

RECURSIVE AddFrom(_, _, _, _)
\* the loop "for idx in range(1, len(labels))" from list position j on:
\* sitk.Add(multi, labels[idx] * binaries[idx])
AddFrom(j, multi, binaries, ls) ==
    IF j > Len(ls) THEN multi
    ELSE AddFrom(j + 1,
                 [v \in DOMAIN multi |->
                     multi[v] + ls[j] * (IF v \in binaries[j] THEN 1 ELSE 0)],
                 binaries, ls)

\* largest_cc_multi: the first binary mask as it is, to which the later
\* ones are added, each multiplied by its label
largest_cc_multi(binaries, ls, size) ==
    AddFrom(2, [v \in Grid(size) |-> IF v \in binaries[1] THEN 1 ELSE 0], binaries, ls)

\* faulty variant: an empty label list gives an all-zero volume, not an error
PickLargestOf_EmptyZero(m, ls, size) ==
    IF Len(ls) = 0
    THEN [ok |-> TRUE, image |-> [v \in Grid(size) |-> 0]]
    ELSE [ok |-> TRUE,
          image |-> largest_cc_multi([j \in 1..Len(ls) |->
                                         LargestCC(mask_binary(m, ls[j]), size)],
                                     ls, size)]

\* the outcome of pick_largest_connected_component(m, ls): the returned
\* volume, or no volume when largest_cc_binaries[0] raises IndexError
PickLargestOf(m, ls, size) ==
    IF Len(ls) = 0
    THEN [ok |-> FALSE, image |-> None]
    ELSE [ok |-> TRUE,
          image |-> largest_cc_multi([j \in 1..Len(ls) |->
                                         LargestCC(mask_binary(m, ls[j]), size)],
                                     ls, size)]

\* the outcome of remove_small_connected_component(m, ls, t): the returned
\* volume, or no volume when largest_cc_binaries[0] raises IndexError
RemoveSmallOf(m, ls, t, size) ==
    IF Len(ls) = 0
    THEN [ok |-> FALSE, image |-> None]
    ELSE [ok |-> TRUE,
          image |-> largest_cc_multi([j \in 1..Len(ls) |->
                                         KeptCC(mask_binary(m, ls[j]), t)],
                                     ls, size)]

pick_largest_connected_component ==
    /\ pc = "init"
    /\ LET out == PickLargestOf(mask, labels, image_size)
       IN  IF out.ok
           THEN /\ pc' = "picked"
                /\ filtered' = out.image
           ELSE /\ pc' = "error"
                /\ UNCHANGED filtered
    /\ UNCHANGED <<planVars, resVars, accVars, geomVars, trainVars, mask, labels, threshold, threshold2, refiltered>>

remove_small_connected_component ==
    /\ pc = "init"
    /\ \E t \in 0..MaxThreshold :
          /\ threshold' = t
          /\ LET out == RemoveSmallOf(mask, labels, t, image_size)
             IN  IF out.ok
                 THEN /\ pc' = "removed"
                      /\ filtered' = out.image
                 ELSE /\ pc' = "error"
                      /\ UNCHANGED filtered
    /\ UNCHANGED <<planVars, resVars, accVars, geomVars, trainVars, mask, labels, threshold2, refiltered>>

\* pick_largest_connected_component applied to its own output, same labels
pick_largest_again ==
    /\ pc = "picked"
    /\ pc' = "repicked"
    /\ refiltered' = PickLargestOf(filtered, labels, image_size).image
    /\ UNCHANGED <<planVars, resVars, accVars, geomVars, trainVars, mask, labels, threshold, filtered, threshold2>>

\* remove_small_connected_component applied to the same volume and labels
\* with a threshold that is not smaller
remove_small_other ==
    /\ pc = "removed"
    /\ \E t \in threshold..MaxThreshold :
          /\ threshold2' = t
          /\ refiltered' = RemoveSmallOf(mask, labels, t, image_size).image
    /\ pc' = "removed2"
    /\ UNCHANGED <<planVars, resVars, accVars, geomVars, trainVars, mask, labels, threshold, filtered>>

\* the lists of distinct foreground labels, the empty list included
LabelLists ==
    {ls \in UNION {[1..n -> 1..MaxLabel] : n \in 0..MaxLabel} :
        \A i, j \in DOMAIN ls : ls[i] = ls[j] => i = j}

CCSizes ==
    {sz \in [Axes -> 1..MaxCCSize] : sz[1] * sz[2] * sz[3] <= MaxCCVoxels}

InitCC ==
    /\ pc = "init"
    /\ image_size \in CCSizes
    /\ mask \in [Grid(image_size) -> 0..MaxLabel]
    /\ labels \in LabelLists
    /\ threshold = None
    /\ filtered = None
    /\ threshold2 = None
    /\ refiltered = None
    /\ image_origin = None
    /\ image_direction = None
    /\ interp_method = None
    /\ reference = None
    /\ cropping = None
    /\ outimage = None
    /\ train_cfg = None
    /\ batch_idx = None
    /\ epoch_idx = None
    /\ last_save_epoch = None
    /\ loop_i = None
    /\ save_calls = None
    /\ checkpoints = None
    /\ image_spacing = None
    /\ partition_size = None
    /\ partition_stride = None
    /\ max_stride = None
    /\ box_size = None
    /\ stride_size = None
    /\ num_partitions = None
    /\ start_voxels = None
    /\ end_voxels = None
    /\ resampled_spacing = None
    /\ out_size = None
    /\ mean_probs = None
    /\ overlap_count = None
    /\ tile_of = None
    /\ completion_order = None
    /\ mean_scores = None
    /\ label_volume = None

NextCC ==
    \/ pick_largest_connected_component
    \/ remove_small_connected_component
    \/ pick_largest_again
    \/ remove_small_other

SpecCC == InitCC /\ [][NextCC]_vars

(***************************************************************************)
(* Properties of the component filters.                                    *)
(***************************************************************************)
InList(x, ls) == \E j \in DOMAIN ls : ls[j] = x

\* C is a largest connected component of the voxel set S (S empty: C empty)
IsLargestComponent(C, S) ==
    IF S = {} THEN C = {}
    ELSE /\ C \in Components(S)
         /\ \A D \in Components(S) : Cardinality(D) <= Cardinality(C)

\* C9: after largest-only filtering, for every label L of the list the
\* voxels that carry L in the output are exactly the voxels of the largest
\* connected component of the voxels that carry L in the input, and every
\* other input voxel of label L is 0 in the output.
C9_LargestOnly ==
    pc = "picked" =>
        \A j \in DOMAIN labels :
            /\ IsLargestComponent(mask_binary(filtered, labels[j]), mask_binary(mask, labels[j]))
            /\ \A v \in mask_binary(mask, labels[j]) : filtered[v] \in {0, labels[j]}

\* C10: in both filter modes, a voxel whose input label is not in the list
\* of labels to filter has the same label in the output.
C10_Untouched ==
    pc \in {"picked", "removed"} =>
        \A v \in Grid(image_size) : ~InList(mask[v], labels) => filtered[v] = mask[v]

\* C11: largest-only filtering applied to its own output, with the same
\* labels, returns that output unchanged, voxel for voxel.
C11_Idempotent == pc = "repicked" => refiltered = filtered

\* C12: min-size filtering with threshold 0 returns a volume equal to the
\* input volume at every voxel.
C12_ThresholdZeroIdentity ==
    (pc = "removed" /\ threshold = 0) => filtered = mask

\* C13: for a threshold > 0 and every listed label L, every voxel of a
\* component of L of at least threshold voxels keeps label L, and every
\* voxel of a smaller component of L is 0.
C13_MinSize ==
    (pc = "removed" /\ threshold > 0) =>
        \A j \in DOMAIN labels :
            \A C \in Components(mask_binary(mask, labels[j])) :
                \A v \in C :
                    filtered[v] = (IF Cardinality(C) >= threshold THEN labels[j] ELSE 0)

\* the number of non-zero voxels of a volume
NonZero(m) == Cardinality({v \in DOMAIN m : m[v] # 0})

\* C14: for thresholds t1 <= t2, the volume filtered with t2 has no more
\* non-zero voxels than the same volume filtered with t1.
C14_Monotone ==
    pc = "removed2" => NonZero(refiltered) <= NonZero(filtered)

C14_Witness ==
    /\ pc = "removed2"
    /\ threshold >= 1 /\ threshold < threshold2
    /\ Len(labels) >= 2
    /\ NonZero(refiltered) >= 1
    /\ NonZero(refiltered) < NonZero(filtered)

\* C15: either filter called with an empty label list ends in an error and
\* returns no volume; with a non-empty list it does not end in that error.
C15_EmptyLabels ==
    /\ Len(labels) = 0 => (pc \in {"init", "error"} /\ filtered = None)
    /\ pc = "error" => Len(labels) = 0

C15_Witness == pc = "error" /\ Len(labels) = 0 /\ \E v \in DOMAIN mask : mask[v] # 0

(***************************************************************************)
(* The output grids of crop_image, resample and resample_spacing.          *)
(***************************************************************************)
\* the modes a caller may pass: the two the code accepts, the spelling of
\* the docstring of crop_image ('Linear') and one more
InterpMethods == {"LINEAR", "NN", "Linear", "CUBIC"}

\* axis-aligned, and flipped along x and y
Directions == {Identity, <<-1, 0, 0, 0, -1, 0, 0, 0, 1>>}

Grids ==
    [size : {[i \in Axes |-> a] : a \in 1..MaxGeomSize},
     spacing : {[i \in Axes |-> a] : a \in 1..MaxGeomSpacing},
     origin : {[i \in Axes |-> a] : a \in 0..MaxOrigin},
     direction : Directions]

\* requested sizes in halves of a voxel, from -1 to MaxCropSize on one
\* axis and 1 voxel on the two others
Croppings ==
    [center : {[i \in Axes |-> a] : a \in 0..MaxOrigin},
     size : {[i \in Axes |-> IF i = a THEN n ELSE 2] :
                a \in Axes, n \in (-2)..(2 * MaxCropSize)},
     spacing : {[i \in Axes |-> a] : a \in 1..MaxGeomSpacing}]

InitGeom ==
    /\ pc = "init"
    /\ \E g \in Grids :
          /\ image_size = g.size
          /\ image_spacing = g.spacing
          /\ image_origin = g.origin
          /\ image_direction = g.direction
    /\ max_stride \in 1..MaxStride
    /\ interp_method \in InterpMethods
    /\ \/ reference \in Grids /\ cropping = None
       \/ reference = None /\ cropping \in Croppings
    /\ outimage = None
    /\ partition_size = None
    /\ partition_stride = None
    /\ box_size = None
    /\ stride_size = None
    /\ num_partitions = None
    /\ start_voxels = None
    /\ end_voxels = None
    /\ resampled_spacing = None
    /\ out_size = None
    /\ mean_probs = None
    /\ overlap_count = None
    /\ tile_of = None
    /\ completion_order = None
    /\ mean_scores = None
    /\ label_volume = None
    /\ mask = None
    /\ labels = None
    /\ threshold = None
    /\ filtered = None
    /\ threshold2 = None
    /\ refiltered = None
    /\ train_cfg = None
    /\ batch_idx = None
    /\ epoch_idx = None
    /\ last_save_epoch = None
    /\ loop_i = None
    /\ save_calls = None
    /\ checkpoints = None

NextGeom ==
    \/ crop_image
    \/ resample
    \/ resample_spacing

SpecGeom == InitGeom /\ [][NextGeom]_vars

Called(op) == outimage # None /\ outimage.op = op

C17_FramePreserved ==
    (outimage # None /\ outimage.ok /\ outimage.op \in {"resample", "resample_spacing"}) =>
        /\ outimage.origin = image_origin
        /\ outimage.direction = image_direction

\* C17: the output grid of resample_spacing has the origin and the
\* direction of the input image; the output grid of resample has the
\* origin, direction, spacing and size of the reference image.
C17_Frame ==
    /\ (Called("resample_spacing") /\ outimage.ok) =>
          /\ outimage.origin = image_origin
          /\ outimage.direction = image_direction
    /\ (Called("resample") /\ outimage.ok) =>
          /\ outimage.origin = reference.origin
          /\ outimage.direction = reference.direction
          /\ outimage.spacing = reference.spacing
          /\ outimage.size = reference.size

C17_Witness ==
    /\ Called("resample")
    /\ outimage.ok
    /\ outimage.origin # image_origin
    /\ outimage.direction # image_direction

\* C18: crop_image ends in an error whenever the requested size, converted
\* to integers, is not positive on some axis, and produces no tile.
C18_InvalidGeometry ==
    (Called("crop_image") /\ \E i \in Axes : CroppingSize(cropping.size)[i] <= 0) =>
        ~outimage.ok

(***************************************************************************)
(* train: the batch loop and its checkpoints (core/seg_train.py,           *)
(* utils/model_io.py).                                                     *)
(***************************************************************************)
\* len(data_loader): the sampler concatenates cfg.train.epochs passes over
\* the dataset, the loader cuts them into batches
LenDataLoader(cfg) ==
    (cfg.num_samples * cfg.epochs + cfg.batchsize - 1) \div cfg.batchsize

\* epoch_idx = batch_idx * cfg.train.batchsize // len(dataset)
EpochOf(batch, cfg) == (batch * cfg.batchsize) \div cfg.num_samples

\* save_checkpoint(mask_net, voxel_net, voxel_net_params, opt, epoch_idx,
\* batch_idx, cfg, config_file, max_stride, num_modality): a call with
\* another number of positional arguments raises TypeError before the body
\* runs; otherwise the state written to params.pth
save_checkpoint(args) ==
    IF Len(args) # 10
    THEN [raised |-> TRUE, state |-> None]
    ELSE [raised |-> FALSE,
          state |-> [epoch |-> args[5], batch |-> args[6], max_stride |-> args[9]]]

\* one iteration of the loop over batches
train_batch ==
    /\ pc = "loop"
    /\ loop_i < LenDataLoader(train_cfg.cfg)
    /\ loop_i' = loop_i + 1
    /\ LET e == EpochOf(batch_idx, train_cfg.cfg)
       IN  /\ epoch_idx' = <<e>>
           /\ batch_idx' = batch_idx + 1
           /\ IF e # 0 /\ e % train_cfg.cfg.save_epochs = 0 /\ last_save_epoch # e
              THEN LET out == save_checkpoint(<<"net", "opt", e, batch_idx + 1, "cfg",
                                                "config_file", max_stride, "num_modality">>)
                   IN  /\ save_calls' = Append(save_calls, e)
                       /\ IF out.raised
                          THEN /\ pc' = "TypeError"
                               /\ UNCHANGED <<checkpoints, last_save_epoch>>
                          ELSE /\ pc' = "loop"
                               /\ checkpoints' = checkpoints \cup {out.state}
                               /\ last_save_epoch' = e
              ELSE UNCHANGED <<pc, save_calls, checkpoints, last_save_epoch>>
    /\ UNCHANGED <<planVars, resVars, accVars, ccVars, geomVars, train_cfg>>

\* the loop is exhausted: writer.close()
train_done ==
    /\ pc = "loop"
    /\ loop_i = LenDataLoader(train_cfg.cfg)
    /\ pc' = "done"
    /\ UNCHANGED <<planVars, resVars, accVars, ccVars, geomVars, trainVars>>

\* the checkpoints a run of this configuration can be resumed from: the
\* state of a save epoch, stored on the first batch of that epoch
ResumeStates(cfg) ==
    {st \in [epoch : 1..cfg.epochs, batch : 1..(LenDataLoader(cfg) + 1)] :
        /\ st.epoch % cfg.save_epochs = 0
        /\ EpochOf(st.batch - 1, cfg) = st.epoch
        /\ st.batch > 1 => EpochOf(st.batch - 2, cfg) < st.epoch}

TrainConfigs ==
    [num_samples : 1..MaxSamples, batchsize : 1..MaxBatch,
     save_epochs : 1..MaxSaveEpochs, epochs : 1..MaxEpochs]

\* the state of train() when the loop over batches is entered
InitTrain ==
    /\ pc = "loop"
    /\ max_stride \in 1..MaxStride
    /\ \E cfg \in TrainConfigs :
          \/ \* cfg.general.resume_epoch < 0
             /\ train_cfg = [cfg |-> cfg, resume |-> None]
             /\ last_save_epoch = 0
             /\ batch_idx = 0
             /\ checkpoints = {}
          \/ \* cfg.general.resume_epoch >= 0: load_checkpoint
             \E state \in ResumeStates(cfg) :
                /\ train_cfg = [cfg |-> cfg, resume |-> <<state>>]
                /\ last_save_epoch = state.epoch
                /\ batch_idx = state.batch
                /\ checkpoints = {[epoch |-> state.epoch, batch |-> state.batch,
                                   max_stride |-> max_stride]}
    /\ epoch_idx = None
    /\ loop_i = 0
    /\ save_calls = <<>>
    /\ image_size = None
    /\ image_spacing = None
    /\ partition_size = None
    /\ partition_stride = None
    /\ box_size = None
    /\ stride_size = None
    /\ num_partitions = None
    /\ start_voxels = None
    /\ end_voxels = None
    /\ resampled_spacing = None
    /\ out_size = None
    /\ mean_probs = None
    /\ overlap_count = None
    /\ tile_of = None
    /\ completion_order = None
    /\ mean_scores = None
    /\ label_volume = None
    /\ mask = None
    /\ labels = None
    /\ threshold = None
    /\ filtered = None
    /\ threshold2 = None
    /\ refiltered = None
    /\ image_origin = None
    /\ image_direction = None
    /\ interp_method = None
    /\ reference = None
    /\ cropping = None
    /\ outimage = None

NextTrain ==
    \/ train_batch
    \/ train_done

SpecTrain == InitTrain /\ [][NextTrain]_vars

\* the calls of save_checkpoint made so far are for epochs that are not 0
\* and are multiples of cfg.train.save_epochs, one call per epoch, none for
\* the epoch a resumed run was loaded from
ScheduledOnce ==
    \A k \in DOMAIN save_calls :
        /\ save_calls[k] # 0
        /\ save_calls[k] % train_cfg.cfg.save_epochs = 0
        /\ \A j \in DOMAIN save_calls : j # k => save_calls[j] # save_calls[k]
        /\ train_cfg.resume # None => save_calls[k] # train_cfg.resume[1].epoch

\* C20: save_checkpoint is called for an epoch e only when e # 0 and e is
\* a multiple of cfg.train.save_epochs, at most once for each such e and
\* not again for the epoch loaded on resume, and every call stores a
\* checkpoint of that epoch that carries the network's max_stride.
C20_CheckpointSchedule ==
    /\ ScheduledOnce
    /\ \A k \in DOMAIN save_calls :
          \E c \in checkpoints :
              c.epoch = save_calls[k] /\ c.max_stride = max_stride

====
